---- MODULE Spec2Model ----
(***************************************************************************)
(* A model of the two PyMongo example applications of the repository:      *)
(*   TaskManager (mongodb/pymongo/examples/basic_crud_app.py) and          *)
(*   BlogSystem  (mongodb/pymongo/examples/blog_system.py).                *)
(*                                                                         *)
(* A collection is a sequence of documents in insertion (natural) order.   *)
(* An ObjectId is a natural number handed out by one counter; the string   *)
(* str(ObjectId) is the pair <<"oid", n>>, every other string is a tuple   *)
(* whose first element is not "oid".  Time is a discrete clock.            *)
(***************************************************************************)
EXTENDS Integers, Sequences, FiniteSets, TLC

\* ---------------------------------------------------------------- bounds
MaxUsers == 2
MaxTasks == 2
MaxTime == 1

\* Python's None in an integer-valued field (an identifier, a timestamp),
\* and where a string is expected.
None == -1
NoStr == <<"None">>

VARIABLES
    users,       \* TaskManager: db.users, documents in insertion order
    tasks,       \* TaskManager: db.tasks, documents in insertion order
    nextOid,     \* the next ObjectId the driver generates
    now,         \* datetime.utcnow()
    last,        \* the last call: its name, arguments, outcome and result
    calls,       \* history: create_task calls made so far, per owner ObjectId
    anyDeleted,  \* history: some delete_task call has removed a task
    busers,      \* BlogSystem: db.users
    articles,    \* BlogSystem: db.articles
    comments,    \* BlogSystem: db.comments
    blast,       \* BlogSystem: the last call, as last
    inflight     \* concurrent callers: where each one's call stands

\* The callers that run calls concurrently, and a caller between two calls.
Callers == {1, 2}
Idle == [c \in Callers |-> [pc |-> "idle"]]

\* The state of the TaskManager's database and caller, and of the BlogSystem's.
tmVars == <<users, tasks, last, calls, anyDeleted>>
blogVars == <<busers, articles, comments, blast>>
vars == <<users, tasks, nextOid, now, last, calls, anyDeleted,
          busers, articles, comments, blast, inflight>>

\* ------------------------------------------------------------ identifiers
Range(s) == {s[i] : i \in 1..Len(s)}

\* str(ObjectId(n)): the 24-hex-digit string of ObjectId n.
OidStr(n) == <<"oid", n>>

\* bson.ObjectId.is_valid(x): x is an ObjectId or a 24-hex-digit string.
ObjectId_is_valid(x) == x[1] = "oid"

\* bson.ObjectId(x) for a valid x.
ObjectId(x) == x[2]

\* The decimal digits of n, most significant first.
RECURSIVE Digits(_)
Digits(n) == IF n < 10 THEN <<n>> ELSE Append(Digits(n \div 10), n % 10)

\* Python's format spec 04d: zero-padded on the left to at least 4 digits.
RECURSIVE ZeroPad(_, _)
ZeroPad(ds, width) == IF Len(ds) >= width THEN ds ELSE ZeroPad(<<0>> \o ds, width)

TaskIdWidth == 4

\* f"TASK-{task_count:04d}"
FormatTaskId(task_count) == <<"TASK-">> \o ZeroPad(Digits(task_count), TaskIdWidth)

\* -------------------------------------------------------- the collections
\* The unique indexes setup_indexes creates.
TaskUniqueIndexes == {"task_id"}
UserUniqueIndexes == {"email", "username"}

\* insert_one raises DuplicateKeyError: a stored document has the new
\* document's _id, or its value of a uniquely indexed field.
NoUniqueIndex(coll, doc, unique) == FALSE
UniqueIdOnly(coll, doc, unique) == \E i \in 1..Len(coll) : coll[i]._id = doc._id
DuplicateKey(coll, doc, unique) ==
    \E d \in Range(coll) : d._id = doc._id \/ \E f \in unique : d[f] = doc[f]

\* A query document {field: value}; {} matches every document.
MatchAll == [field |-> "*"]
Matches(doc, q) == q.field = "*" \/ doc[q.field] = q.value

\* count_documents(q)
CountDocuments(coll, q) == Cardinality({i \in 1..Len(coll) : Matches(coll[i], q)})

\* The position of the first document matching q in natural order, 0 if none.
FirstMatch(coll, q) ==
    IF \E i \in 1..Len(coll) : Matches(coll[i], q)
    THEN CHOOSE i \in 1..Len(coll) :
            Matches(coll[i], q) /\ \A j \in 1..(i - 1) : ~Matches(coll[j], q)
    ELSE 0

\* The sequence s without its i-th element.
RemoveAt(s, i) == [j \in 1..(Len(s) - 1) |-> IF j < i THEN s[j] ELSE s[j + 1]]

\* update_one(q, {"$set": upd}): the first matching document with the fields
\* of upd replaced; the collection unchanged if q matches none.
SetFields(doc, upd) ==
    [f \in DOMAIN doc |-> IF f \in DOMAIN upd THEN upd[f] ELSE doc[f]]
UpdateOneSet(coll, q, upd) ==
    LET i == FirstMatch(coll, q) IN
    IF i = 0 THEN coll ELSE [coll EXCEPT ![i] = SetFields(coll[i], upd)]

\* update_one(q, {"$inc": {field: d}})
IncNothing(coll, q, field, d) == coll
IncFirstDocument(coll, q, field, d) ==
    IF Len(coll) = 0 THEN coll ELSE [coll EXCEPT ![1][field] = @ + d]
UpdateOneInc(coll, q, field, d) ==
    LET i == FirstMatch(coll, q) IN
    IF i = 0 THEN coll ELSE [coll EXCEPT ![i][field] = @ + d]

\* result.modified_count of an update_one: 1 when a document matched and the
\* update changed it, else 0.
AcknowledgedCount(coll, after) == 1
ModifiedCount(coll, after) == IF after = coll THEN 0 ELSE 1

\* ------------------------------------------------------------ TaskManager
Usernames == {"ahmed_dev", "sara_pm"}
Emails == {"ahmed@example.com", "sara@example.com"}

Init ==
    /\ users = <<>>
    /\ tasks = <<>>
    /\ nextOid = 1
    /\ now = 0
    /\ last = [op |-> "init"]
    /\ calls = [o \in {} |-> 0]
    /\ anyDeleted = FALSE
    /\ inflight = Idle
    /\ busers = <<>>
    /\ articles = <<>>
    /\ comments = <<>>
    /\ blast = [op |-> "init"]

create_user(username, email) ==
    LET user_data == [_id |-> nextOid, username |-> username, email |-> email,
                      task_count |-> 0]
    IN  /\ Len(users) < MaxUsers
        /\ IF DuplicateKey(users, user_data, UserUniqueIndexes)
           THEN /\ last' = [op |-> "create_user", username |-> username,
                            email |-> email, outcome |-> "return", ret |-> None]
                /\ UNCHANGED <<users, nextOid, calls>>
           ELSE /\ users' = Append(users, user_data)
                /\ nextOid' = nextOid + 1
                /\ calls' = [o \in DOMAIN calls \cup {nextOid} |->
                                IF o = nextOid THEN 0 ELSE calls[o]]
                /\ last' = [op |-> "create_user", username |-> username,
                            email |-> email, outcome |-> "return", ret |-> nextOid]
        /\ UNCHANGED <<tasks, now, anyDeleted, blogVars, inflight>>

\* Python's `"@" in identifier`.  A string that is no ObjectId is the tuple
\* of its pieces, with "@" a piece of its own.
StrContains(text, piece) == \E i \in 1..Len(text) : text[i] = piece

\* The query get_user builds from the identifier.
GetUserQueryByNameOnly(identifier) ==
    IF ObjectId_is_valid(identifier)
    THEN [field |-> "_id", value |-> ObjectId(identifier)]
    ELSE [field |-> "username", value |-> identifier]
GetUserQuery(identifier) ==
    IF ObjectId_is_valid(identifier)
    THEN [field |-> "_id", value |-> ObjectId(identifier)]
    ELSE IF StrContains(identifier, "@")
    THEN [field |-> "email", value |-> identifier]
    ELSE [field |-> "username", value |-> identifier]

\* get_user returns the document found, here its _id, or None.
get_user(identifier) ==
    LET user == FirstMatch(users, GetUserQuery(identifier))
    IN  /\ last' = [op |-> "get_user", identifier |-> identifier,
                    outcome |-> "return",
                    ret |-> IF user = 0 THEN None ELSE users[user]._id]
        /\ UNCHANGED <<users, tasks, nextOid, now, calls, anyDeleted, blogVars, inflight>>

\* get_task / update_task / delete_task each build their query from the
\* identifier: by _id when it is a valid ObjectId, else by task_id.
GetTaskQuery(task_identifier) ==
    IF ObjectId_is_valid(task_identifier)
    THEN [field |-> "_id", value |-> ObjectId(task_identifier)]
    ELSE [field |-> "task_id", value |-> task_identifier]

UpdateTaskQuery(task_identifier) ==
    IF ObjectId_is_valid(task_identifier)
    THEN [field |-> "_id", value |-> ObjectId(task_identifier)]
    ELSE [field |-> "task_id", value |-> task_identifier]

DeleteTaskQuery(task_identifier) ==
    IF ObjectId_is_valid(task_identifier)
    THEN [field |-> "_id", value |-> ObjectId(task_identifier)]
    ELSE [field |-> "task_id", value |-> task_identifier]

\* The number of tasks inserted so far (every ObjectId went to a user or a task).
TasksInserted == nextOid - 1 - Len(users)

create_task(user_id, due_date) ==
    LET task_count == CountDocuments(tasks, MatchAll) + 1
        task_id == FormatTaskId(task_count)
        task_data == [_id |-> nextOid, task_id |-> task_id, user_id |-> user_id,
                      status |-> "todo", updated_at |-> now, due_date |-> due_date,
                      completed_at |-> None, tags |-> <<>>]
        call == [op |-> "create_task", user_id |-> user_id, task_id |-> task_id]
        counted == ObjectId_is_valid(user_id) /\ ObjectId(user_id) \in DOMAIN calls
        taken == CountDocuments(tasks, [field |-> "task_id", value |-> task_id]) > 0
    IN  \* bounds: MaxTasks fresh task_ids, MaxTasks + 1 calls for each user
        /\ TasksInserted < MaxTasks \/ taken
        /\ counted => calls[ObjectId(user_id)] <= MaxTasks
        /\ calls' = IF counted THEN [calls EXCEPT ![ObjectId(user_id)] = @ + 1]
                    ELSE calls
        /\ IF DuplicateKey(tasks, task_data, TaskUniqueIndexes)
           THEN \* insert_one raises DuplicateKeyError, caught by except Exception
                /\ last' = call @@ [outcome |-> "return", ret |-> None]
                /\ UNCHANGED <<tasks, users, nextOid>>
           ELSE /\ tasks' = Append(tasks, task_data)
                /\ nextOid' = nextOid + 1
                /\ IF ObjectId_is_valid(user_id)
                   THEN /\ users' = UpdateOneInc(users,
                                        [field |-> "_id", value |-> ObjectId(user_id)],
                                        "task_count", 1)
                        /\ last' = call @@ [outcome |-> "return", ret |-> nextOid]
                   ELSE \* ObjectId(user_id) raises InvalidId, caught as well
                        /\ users' = users
                        /\ last' = call @@ [outcome |-> "return", ret |-> None]
        /\ UNCHANGED <<now, anyDeleted, blogVars, inflight>>

\* get_task: find_one, the position of the task found (0: None).
get_task(task_identifier) == FirstMatch(tasks, GetTaskQuery(task_identifier))

\* Python's updates[key] = value on a dict.
DictSet(d, key, value) ==
    [k \in DOMAIN d \cup {key} |-> IF k = key THEN value ELSE d[k]]

\* The $set document update_task builds from the caller's updates.
UpdateDocumentAlwaysStamped(updates, t) ==
    LET stamped == [k \in DOMAIN updates \cup {"updated_at"} |->
                        IF k = "updated_at" THEN t ELSE updates[k]]
    IN  IF "status" \in DOMAIN stamped /\ stamped["status"] = "completed"
        THEN [k \in DOMAIN stamped \cup {"completed_at"} |->
                IF k = "completed_at" THEN t ELSE stamped[k]]
        ELSE stamped
UpdateDocument(updates, t) ==
    LET stamped == DictSet(updates, "updated_at", t) IN
    IF /\ "status" \in DOMAIN stamped
       /\ stamped["status"] = "completed"
       /\ "completed_at" \notin DOMAIN stamped
    THEN DictSet(stamped, "completed_at", t)
    ELSE stamped

update_task(task_identifier, updates) ==
    LET query == UpdateTaskQuery(task_identifier)
        after == UpdateOneSet(tasks, query, UpdateDocument(updates, now))
    IN  /\ tasks' = after
        /\ last' = [op |-> "update_task", task_identifier |-> task_identifier,
                    updates |-> updates, time |-> now, outcome |-> "return",
                    ret |-> (ModifiedCount(tasks, after) > 0)]
        /\ UNCHANGED <<users, nextOid, now, calls, anyDeleted, blogVars, inflight>>

\* delete_task without its checks of what was found and what was deleted.
delete_task_unchecked(task_identifier) ==
    LET hit == FirstMatch(tasks, [field |-> "task_id", value |-> task_identifier])
    IN  /\ tasks' = IF hit = 0 THEN tasks ELSE RemoveAt(tasks, hit)
        /\ users' = IF hit = 0 \/ tasks[hit].user_id[1] # "oid" THEN users
                     ELSE [i \in 1..Len(users) |->
                            IF users[i]._id = tasks[hit].user_id[2]
                            THEN [users[i] EXCEPT !.task_count = @ - 1]
                            ELSE users[i]]
        /\ anyDeleted' = (anyDeleted \/ hit # 0)
        /\ last' = [op |-> "delete_task", task_identifier |-> task_identifier,
                    outcome |-> "return", ret |-> TRUE]
        /\ UNCHANGED <<nextOid, now, calls, blogVars, inflight>>

delete_task(task_identifier) ==
    LET found == get_task(task_identifier)
        query == DeleteTaskQuery(task_identifier)
        hit == FirstMatch(tasks, query)
        call == [op |-> "delete_task", task_identifier |-> task_identifier]
    IN  IF found = 0
        THEN /\ last' = call @@ [outcome |-> "return", ret |-> FALSE]
             /\ UNCHANGED <<users, tasks, nextOid, now, calls, anyDeleted, blogVars, inflight>>
        ELSE IF hit = 0
        THEN \* deleted_count = 0
             /\ last' = call @@ [outcome |-> "return", ret |-> FALSE]
             /\ UNCHANGED <<users, tasks, nextOid, now, calls, anyDeleted, blogVars, inflight>>
        ELSE /\ tasks' = RemoveAt(tasks, hit)
             /\ anyDeleted' = TRUE
             /\ IF ObjectId_is_valid(tasks[found].user_id)
                THEN /\ users' = UpdateOneInc(users,
                            [field |-> "_id", value |-> ObjectId(tasks[found].user_id)],
                            "task_count", -1)
                     /\ last' = call @@ [outcome |-> "return", ret |-> TRUE]
                ELSE \* ObjectId(task["user_id"]) raises InvalidId to the caller
                     /\ users' = users
                     /\ last' = call @@ [outcome |-> "raise", ret |-> FALSE]
             /\ UNCHANGED <<nextOid, now, calls, blogVars, inflight>>

\* {"$push": {"tags": {"$each": values}}}: every value appended.
RECURSIVE PushEach(_, _)
PushEach(list, values) ==
    IF values = <<>> THEN list
    ELSE PushEach(Append(list, Head(values)), Tail(values))

\* {"$addToSet": {"tags": {"$each": values}}}: each value in turn, appended
\* unless the array already has it.
RECURSIVE AddToSetEach(_, _)
AddToSetEach(list, values) ==
    IF values = <<>> THEN list
    ELSE AddToSetEach(IF Head(values) \in Range(list) THEN list
                      ELSE Append(list, Head(values)),
                      Tail(values))

AddTagsQuery(task_identifier) ==
    IF ObjectId_is_valid(task_identifier)
    THEN [field |-> "_id", value |-> ObjectId(task_identifier)]
    ELSE [field |-> "task_id", value |-> task_identifier]

add_tags_to_task(task_identifier, tags) ==
    LET i == FirstMatch(tasks, AddTagsQuery(task_identifier))
        after == IF i = 0 THEN tasks
                 ELSE [tasks EXCEPT ![i].tags = AddToSetEach(@, tags),
                                    ![i].updated_at = now]
    IN  /\ tasks' = after
        /\ last' = [op |-> "add_tags_to_task", task_identifier |-> task_identifier,
                    tags |-> tags, outcome |-> "return",
                    ret |-> (ModifiedCount(tasks, after) > 0)]
        /\ UNCHANGED <<users, nextOid, now, calls, anyDeleted, blogVars, inflight>>

\* The comparison operators of the query language. $lt compares within one
\* type only: a null due_date is not less than any datetime.
MatchLte(value, bound) == value # None /\ value <= bound
MatchLt(value, bound) == value # None /\ value < bound
MatchNin(value, excluded) == value \notin excluded

get_overdue_tasks ==
    LET current_time == now
        overdue_tasks == SelectSeq(tasks, LAMBDA t :
                            /\ MatchLt(t.due_date, current_time)
                            /\ MatchNin(t.status, {"completed", "cancelled"}))
    IN  /\ last' = [op |-> "get_overdue_tasks", time |-> current_time,
                    outcome |-> "return", ret |-> overdue_tasks]
        /\ UNCHANGED <<users, tasks, nextOid, now, calls, anyDeleted, blogVars, inflight>>

\* The clock advances between two calls.
Tick ==
    /\ now < MaxTime
    /\ now' = now + 1
    /\ last' = [op |-> "tick"]
    /\ UNCHANGED <<users, tasks, nextOid, calls, anyDeleted, blogVars, inflight>>

\* ------------------------------------------------------ the callers' inputs
\* The users of the demonstration run, and a third registration that reuses
\* the first one's username and the second one's email.
UserInputs ==
    { <<"ahmed_dev", "ahmed@example.com">>,
      <<"sara_pm", "sara@example.com">>,
      <<"ahmed_dev", "sara@example.com">> }

\* Owners passed to create_task: str(_id) of a stored user, and a string
\* that is no ObjectId.
Owners == {OidStr(users[i]._id) : i \in 1..Len(users)} \cup {<<"str", "ahmed_dev">>}
UserOwners == {OidStr(users[i]._id) : i \in 1..Len(users)}

\* Identifiers passed to update_task and delete_task: str(_id) of each
\* stored task, a well-formed ObjectId naming no task, and every task_id
\* handed out so far (its task stored or deleted) and the one after them.
NoSuchOid == OidStr(0)
TaskIdentifiers ==
    {OidStr(tasks[i]._id) : i \in 1..Len(tasks)}
        \cup {NoSuchOid}
        \cup {FormatTaskId(n) : n \in 1..(TasksInserted + 1)}

\* ------------------------------------------------------------------ Spec
\* TaskManager, one caller: users, tasks and the task counters.
Next ==
    \/ \E in \in UserInputs : create_user(in[1], in[2])
    \/ \E o \in Owners : create_task(o, None)
    \/ \E t \in TaskIdentifiers : delete_task(t)

Spec == Init /\ [][Next]_vars

\* ------------------------------------------------------------- SpecUpdate
\* TaskManager, one caller: the fields of a task under update_task, as
\* time passes.
MaxUpdTasks == 1
DueDates == {None, 1}
UpdatesIn ==
    { <<>>,
      [status |-> "in_progress"],
      [status |-> "cancelled"],
      [status |-> "completed"],
      [status |-> "completed", completed_at |-> 0] }

NextUpdate ==
    \/ Len(users) = 0 /\ create_user("ahmed_dev", "ahmed@example.com")
    \/ \E o \in UserOwners, d \in DueDates :
            TasksInserted < MaxUpdTasks /\ create_task(o, d)
    \/ \E t \in TaskIdentifiers, upd \in UpdatesIn : update_task(t, upd)
    \/ Tick

SpecUpdate == Init /\ [][NextUpdate]_vars

\* ------------------------------------------------------------ SpecOverdue
\* get_overdue_tasks over the task collections one user's create_task and
\* update_task calls leave behind, at every time of the clock.
MaxOverdueTasks == 2
Statuses == {"todo", "in_progress", "completed", "cancelled"}
StoredDueDates == {None} \cup (0..MaxTime)

StoredTask(i, status, due_date) ==
    [_id |-> i + 1, task_id |-> FormatTaskId(i), user_id |-> OidStr(1),
     status |-> status, updated_at |-> 0, due_date |-> due_date,
     completed_at |-> IF status = "completed" THEN 0 ELSE None, tags |-> <<>>]

InitOverdue ==
    /\ \E n \in 0..MaxOverdueTasks :
        /\ \E st \in [1..n -> Statuses], due \in [1..n -> StoredDueDates] :
                tasks = [i \in 1..n |-> StoredTask(i, st[i], due[i])]
        /\ users = << [_id |-> 1, username |-> "ahmed_dev",
                       email |-> "ahmed@example.com", task_count |-> n] >>
        /\ nextOid = n + 2
        /\ calls = [o \in {1} |-> n]
    /\ now \in 0..MaxTime
    /\ last = [op |-> "init"]
    /\ anyDeleted = FALSE
    /\ inflight = Idle
    /\ busers = <<>>
    /\ articles = <<>>
    /\ comments = <<>>
    /\ blast = [op |-> "init"]

NextOverdue == get_overdue_tasks

SpecOverdue == InitOverdue /\ [][NextOverdue]_vars

\* ------------------------------------------------------------- SpecLookup
\* TaskManager, one caller: users, and the tasks of the first user, looked
\* up by identifier.  The registrations: an ordinary one; a username of 24
\* hex digits with an email without "@"; a username with an "@" in it.
MaxLookupTasks == 1

LookupInputs ==
    { << <<"ahmed_dev">>, <<"ahmed", "@", "example.com">> >>,
      << OidStr(0), <<"sara_pm">> >>,
      << <<"sara", "@", "example.com">>, <<"sara", "@", "work.org">> >> }

\* Identifiers passed to get_user: every string registered and str(_id) of
\* the first users.
UserIdentifiers ==
    {in[1] : in \in LookupInputs} \cup {in[2] : in \in LookupInputs}
        \cup {OidStr(1)}

NextLookup ==
    \/ \E in \in LookupInputs : create_user(in[1], in[2])
    \/ \E id \in UserIdentifiers : get_user(id)
    \/ \E o \in UserOwners :
            /\ o = OidStr(users[1]._id) /\ TasksInserted < MaxLookupTasks
            /\ create_task(o, None)
    \/ \E t \in TaskIdentifiers : update_task(t, [status |-> "in_progress"])
    \/ \E t \in TaskIdentifiers : delete_task(t)

SpecLookup == Init /\ [][NextLookup]_vars

\* --------------------------------------------------------- SpecConcurrent
\* TaskManager, several callers on one database: every database call of
\* create_task and delete_task is a step of its own, and the steps of the
\* callers interleave.  inflight[c] holds the locals of caller c's call.
MaxConcTasks == 2

\* The calls that have read the task count and not yet inserted.
PendingInserts == Cardinality({c \in Callers : inflight[c].pc = "insert"})

\* task_count = self.tasks.count_documents({}) + 1
create_task_count(c, user_id) ==
    LET task_count == CountDocuments(tasks, MatchAll) + 1
        task_id == FormatTaskId(task_count)
        counted == ObjectId_is_valid(user_id) /\ ObjectId(user_id) \in DOMAIN calls
    IN  /\ inflight[c].pc = "idle"
        \* bounds: MaxConcTasks inserts, MaxConcTasks + 1 calls for each user
        /\ TasksInserted + PendingInserts < MaxConcTasks
        /\ counted => calls[ObjectId(user_id)] <= MaxConcTasks
        /\ inflight' = [inflight EXCEPT ![c] =
                [pc |-> "insert", user_id |-> user_id, task_id |-> task_id]]
        /\ calls' = IF counted THEN [calls EXCEPT ![ObjectId(user_id)] = @ + 1]
                    ELSE calls
        /\ UNCHANGED <<users, tasks, nextOid, now, last, anyDeleted, blogVars>>

\* result = self.tasks.insert_one(task_data)
create_task_insert(c) ==
    LET my == inflight[c]
        task_data == [_id |-> nextOid, task_id |-> my.task_id, user_id |-> my.user_id,
                      status |-> "todo", updated_at |-> now, due_date |-> None,
                      completed_at |-> None, tags |-> <<>>]
    IN  /\ my.pc = "insert"
        /\ IF DuplicateKey(tasks, task_data, TaskUniqueIndexes)
           THEN \* DuplicateKeyError, caught by except Exception: return None
                /\ inflight' = [inflight EXCEPT ![c] = [pc |-> "idle"]]
                /\ last' = [op |-> "create_task", caller |-> c, user_id |-> my.user_id,
                            task_id |-> my.task_id, outcome |-> "return", ret |-> None]
                /\ UNCHANGED <<tasks, nextOid>>
           ELSE /\ tasks' = Append(tasks, task_data)
                /\ nextOid' = nextOid + 1
                /\ inflight' = [inflight EXCEPT ![c] =
                        [pc |-> "inc", user_id |-> my.user_id, task_id |-> my.task_id,
                         inserted_id |-> nextOid]]
                /\ last' = last
        /\ UNCHANGED <<users, now, calls, anyDeleted, blogVars>>

\* self.users.update_one({"_id": ObjectId(user_id)}, {"$inc": {"task_count": 1}})
create_task_inc(c) ==
    LET my == inflight[c]
        call == [op |-> "create_task", caller |-> c, user_id |-> my.user_id,
                 task_id |-> my.task_id, outcome |-> "return"]
    IN  /\ my.pc = "inc"
        /\ IF ObjectId_is_valid(my.user_id)
           THEN /\ users' = UpdateOneInc(users,
                                [field |-> "_id", value |-> ObjectId(my.user_id)],
                                "task_count", 1)
                /\ last' = call @@ [ret |-> my.inserted_id]
           ELSE \* ObjectId(user_id) raises InvalidId, caught: return None
                /\ users' = users
                /\ last' = call @@ [ret |-> None]
        /\ inflight' = [inflight EXCEPT ![c] = [pc |-> "idle"]]
        /\ UNCHANGED <<tasks, nextOid, now, calls, anyDeleted, blogVars>>

\* task = self.get_task(task_identifier)
delete_task_find(c, task_identifier) ==
    LET found == get_task(task_identifier)
    IN  /\ inflight[c].pc = "idle"
        /\ IF found = 0
           THEN /\ inflight' = inflight
                /\ last' = [op |-> "delete_task", caller |-> c,
                            task_identifier |-> task_identifier,
                            outcome |-> "return", ret |-> FALSE]
           ELSE /\ inflight' = [inflight EXCEPT ![c] =
                        [pc |-> "delete", task_identifier |-> task_identifier,
                         task |-> tasks[found]]]
                /\ last' = last
        /\ UNCHANGED <<users, tasks, nextOid, now, calls, anyDeleted, blogVars>>

\* result = self.tasks.delete_one(query); if result.deleted_count > 0: ...
delete_task_delete(c) ==
    LET my == inflight[c]
        hit == FirstMatch(tasks, DeleteTaskQuery(my.task_identifier))
    IN  /\ my.pc = "delete"
        /\ IF hit = 0
           THEN \* deleted_count = 0: return False
                /\ inflight' = [inflight EXCEPT ![c] = [pc |-> "idle"]]
                /\ last' = [op |-> "delete_task", caller |-> c,
                            task_identifier |-> my.task_identifier,
                            outcome |-> "return", ret |-> FALSE]
                /\ UNCHANGED <<tasks, anyDeleted>>
           ELSE /\ tasks' = RemoveAt(tasks, hit)
                /\ anyDeleted' = TRUE
                /\ inflight' = [inflight EXCEPT ![c] =
                        [pc |-> "dec", task_identifier |-> my.task_identifier,
                         task |-> my.task]]
                /\ last' = last
        /\ UNCHANGED <<users, nextOid, now, calls, blogVars>>

\* self.users.update_one({"_id": ObjectId(task["user_id"])}, {"$inc": {"task_count": -1}})
delete_task_dec(c) ==
    LET my == inflight[c]
        call == [op |-> "delete_task", caller |-> c,
                 task_identifier |-> my.task_identifier]
    IN  /\ my.pc = "dec"
        /\ IF ObjectId_is_valid(my.task.user_id)
           THEN /\ users' = UpdateOneInc(users,
                                [field |-> "_id", value |-> ObjectId(my.task.user_id)],
                                "task_count", -1)
                /\ last' = call @@ [outcome |-> "return", ret |-> TRUE]
           ELSE \* ObjectId(task["user_id"]) raises InvalidId to the caller
                /\ users' = users
                /\ last' = call @@ [outcome |-> "raise", ret |-> FALSE]
        /\ inflight' = [inflight EXCEPT ![c] = [pc |-> "idle"]]
        /\ UNCHANGED <<tasks, nextOid, now, calls, anyDeleted, blogVars>>

\* The two users of the demonstration run are registered.
InitConcurrent ==
    /\ users = << [_id |-> 1, username |-> "ahmed_dev", email |-> "ahmed@example.com",
                   task_count |-> 0],
                  [_id |-> 2, username |-> "sara_pm", email |-> "sara@example.com",
                   task_count |-> 0] >>
    /\ tasks = <<>>
    /\ nextOid = 3
    /\ now = 0
    /\ last = [op |-> "init"]
    /\ calls = [o \in {1, 2} |-> 0]
    /\ anyDeleted = FALSE
    /\ inflight = Idle
    /\ busers = <<>>
    /\ articles = <<>>
    /\ comments = <<>>
    /\ blast = [op |-> "init"]

NextConcurrent ==
    \E c \in Callers :
        \/ \E o \in UserOwners : create_task_count(c, o)
        \/ create_task_insert(c)
        \/ create_task_inc(c)
        \/ \E t \in TaskIdentifiers : delete_task_find(c, t)
        \/ delete_task_delete(c)
        \/ delete_task_dec(c)

SpecConcurrent == InitConcurrent /\ [][NextConcurrent]_vars

\* --------------------------------------------------------------- SpecTags
\* TaskManager, one caller: tags added to the tasks of one user; the lists
\* passed repeat a tag, name tags already present, or are empty.
TagLists == { <<>>, <<"ui">>, <<"ui", "ui">>, <<"urgent", "ui">> }

NextTags ==
    \/ Len(users) = 0 /\ create_user("ahmed_dev", "ahmed@example.com")
    \/ \E o \in UserOwners : create_task(o, None)
    \/ \E t \in TaskIdentifiers, tags \in TagLists : add_tags_to_task(t, tags)

SpecTags == Init /\ [][NextTags]_vars

\* ----------------------------------------------------------- SpecReassign
\* TaskManager, one caller: update_task with updates that hand a task to
\* another owner, among the creations and deletions.
NextReassign ==
    \/ \E in \in UserInputs : create_user(in[1], in[2])
    \/ \E o \in UserOwners : create_task(o, None)
    \/ \E t \in TaskIdentifiers, o \in UserOwners : update_task(t, [user_id |-> o])
    \/ \E t \in TaskIdentifiers : delete_task(t)

SpecReassign == Init /\ [][NextReassign]_vars

\* ============================================================= BlogSystem
\* The unique indexes _setup_indexes creates on db.users.
BlogUserUniqueIndexes == {"email", "username"}

Blog_create_user(username, email) ==
    LET user_data == [_id |-> nextOid, username |-> username, email |-> email,
                      article_count |-> 0, comment_count |-> 0]
        call == [op |-> "create_user", username |-> username, email |-> email]
    IN  /\ Len(busers) < MaxUsers
        /\ IF DuplicateKey(busers, user_data, BlogUserUniqueIndexes)
           THEN \* DuplicateKeyError, caught by except Exception
                /\ blast' = call @@ [outcome |-> "return", ret |-> NoStr]
                /\ UNCHANGED <<busers, nextOid>>
           ELSE /\ busers' = Append(busers, user_data)
                /\ nextOid' = nextOid + 1
                /\ blast' = call @@ [outcome |-> "return", ret |-> OidStr(nextOid)]
        /\ UNCHANGED <<tmVars, inflight, now, articles, comments>>

\* -------------------------------------------------------------- SpecUsers
\* Registrations with both managers, every username with every email.
NextUsers ==
    \/ \E u \in Usernames, e \in Emails : create_user(u, e)
    \/ \E u \in Usernames, e \in Emails : Blog_create_user(u, e)

SpecUsers == Init /\ [][NextUsers]_vars

\* ----------------------------------------------------------- the comments
\* The $lookup of the author (let author_id = $toObjectId of the document's
\* author_id) followed by $unwind "$author": the documents whose author is
\* a stored user.  $toObjectId fails on a string that is no ObjectId, and
\* the failure fails the aggregation.
LookupFails(docs) == \E i \in 1..Len(docs) : ~ObjectId_is_valid(docs[i].author_id)
LookupUnwindAuthor(docs) ==
    SelectSeq(docs, LAMBDA d :
        \E i \in 1..Len(busers) : busers[i]._id = ObjectId(d.author_id))

\* The article create_article stores as the i-th document of the database
\* after the first user, published (status "published") at published_date or
\* a draft, with its counters <<view_count, like_count, comment_count>>.
StoredArticle(i, author_id, published_date, counters) ==
    [_id |-> 1 + i, author_id |-> author_id,
     status |-> IF published_date = None THEN "draft" ELSE "published",
     published_date |-> published_date,
     view_count |-> counters[1], like_count |-> counters[2],
     comment_count |-> counters[3]]

\* Python's truth value of a parent_id: None and "" are false.
Truthy(text) == text # NoStr /\ text # <<"str", "">>

\* The first loop of _organize_comments: comment_map[str(_id)] = comment.
\* A comment is named by its position in the list.
RECURSIVE BuildCommentMap(_, _, _)
BuildCommentMap(list, k, comment_map) ==
    IF k > Len(list) THEN comment_map
    ELSE BuildCommentMap(list, k + 1, DictSet(comment_map, OidStr(list[k]._id), k))

\* The second loop: a comment with a parent_id is appended to the replies of
\* the comment the map holds for it, if it holds one; a comment without is
\* appended to root_comments.
RECURSIVE OrphansBecomeRoots(_, _, _, _, _)
OrphansBecomeRoots(list, k, comment_map, replies, root_comments) ==
    IF k > Len(list) THEN [roots |-> root_comments, replies |-> replies]
    ELSE IF Truthy(list[k].parent_id) /\ list[k].parent_id \in DOMAIN comment_map
    THEN OrphansBecomeRoots(list, k + 1, comment_map,
            [replies EXCEPT ![comment_map[list[k].parent_id]] = Append(@, k)],
            root_comments)
    ELSE OrphansBecomeRoots(list, k + 1, comment_map, replies,
            Append(root_comments, k))

RECURSIVE OrganizeHierarchy(_, _, _, _, _)
OrganizeHierarchy(list, k, comment_map, replies, root_comments) ==
    IF k > Len(list) THEN [roots |-> root_comments, replies |-> replies]
    ELSE IF Truthy(list[k].parent_id)
    THEN IF list[k].parent_id \in DOMAIN comment_map
         THEN OrganizeHierarchy(list, k + 1, comment_map,
                [replies EXCEPT ![comment_map[list[k].parent_id]] = Append(@, k)],
                root_comments)
         ELSE OrganizeHierarchy(list, k + 1, comment_map, replies, root_comments)
    ELSE OrganizeHierarchy(list, k + 1, comment_map, replies,
            Append(root_comments, k))

\* _organize_comments: the root comments and every comment's replies,
\* comments named by their positions in the list.
_organize_comments(list) ==
    OrganizeHierarchy(list, 1, BuildCommentMap(list, 1, <<>>),
                      [k \in 1..Len(list) |-> <<>>], <<>>)

get_comments(article_id) ==
    LET matched == SelectSeq(comments, LAMBDA c :
                        c.article_id = article_id /\ c.is_approved)
        call == [op |-> "get_comments", article_id |-> article_id]
    IN  /\ IF LookupFails(matched)
           THEN \* the aggregation raises, caught by except Exception
                blast' = call @@ [outcome |-> "return", organized |-> FALSE,
                                  list |-> <<>>, ret |-> <<>>]
           ELSE LET list == LookupUnwindAuthor(matched) IN
                blast' = call @@ [outcome |-> "return", organized |-> TRUE,
                                  list |-> list, ret |-> _organize_comments(list)]
        /\ UNCHANGED <<tmVars, inflight, nextOid, now, busers, articles, comments>>

\* ----------------------------------------------------------- SpecComments
\* get_comments over the comment collections add_comment calls leave behind:
\* one user, two articles, each comment on either article, written by the
\* user or by an author that is no stored user, and replying to nothing, to
\* an earlier comment (of either article) or to a parent_id naming nothing.
MaxComments == 3

CommentParents(i) == {NoStr, OidStr(0)} \cup {OidStr(3 + j) : j \in 1..(i - 1)}
CommentAuthors == {OidStr(1), OidStr(0)}
CommentArticles == {OidStr(2), OidStr(3)}

StoredComment(i, article_id, author_id, parent_id) ==
    [_id |-> 3 + i, article_id |-> article_id, author_id |-> author_id,
     parent_id |-> parent_id, is_approved |-> TRUE]

InitComments ==
    /\ \E n \in 0..MaxComments :
        /\ \E par \in [1..n -> CommentParents(n)],
              art \in [1..n -> CommentArticles],
              aut \in [1..n -> CommentAuthors] :
            /\ \A i \in 1..n : par[i] \in CommentParents(i)
            /\ comments = [i \in 1..n |-> StoredComment(i, art[i], aut[i], par[i])]
        /\ nextOid = 4 + n
    /\ busers = << [_id |-> 1, username |-> "john_doe", email |-> "john@example.com",
                    article_count |-> 0, comment_count |-> 0] >>
    /\ articles = [i \in 1..2 |->
            StoredArticle(i, OidStr(1), 0,
                <<0, 0, Cardinality({k \in 1..Len(comments) :
                                        comments[k].article_id = OidStr(1 + i)})>>)]
    /\ blast = [op |-> "init"]
    /\ users = <<>>
    /\ tasks = <<>>
    /\ now = 0
    /\ last = [op |-> "init"]
    /\ calls = [o \in {} |-> 0]
    /\ anyDeleted = FALSE
    /\ inflight = Idle

NextComments == \E a \in CommentArticles : get_comments(a)

SpecComments == InitComments /\ [][NextComments]_vars

\* ------------------------------------------------------- popular articles
\* timedelta(days=days), in ticks of the clock: where days are counted, the
\* clock ticks once a day.
timedelta(days) == days

\* $gte compares within one type only: a null published_date matches nothing.
MatchGte(value, bound) == value # None /\ value >= bound

\* The weights of the $addFields stage.
ViewWeight == 1
LikeWeight == 3
CommentWeight == 2
LikesAndCommentsSwapped(article) ==
    article.view_count * ViewWeight + article.like_count * CommentWeight
        + article.comment_count * LikeWeight
PopularityScore(article) ==
    article.view_count * ViewWeight + article.like_count * LikeWeight
        + article.comment_count * CommentWeight

\* {"$sort": {"popularity_score": -1}}: the orders of docs with no score
\* before a higher one; the order among equal scores is the server's.
Orderings(docs) ==
    {o \in [1..Len(docs) -> 1..Len(docs)] :
        /\ \A i, j \in 1..Len(docs) : i # j => o[i] # o[j]
        /\ \A i \in 1..(Len(docs) - 1) :
                docs[o[i]].popularity_score >= docs[o[i + 1]].popularity_score}

\* {"$limit": limit}, for a positive limit.
Limit(docs, limit) == SubSeq(docs, 1, IF limit < Len(docs) THEN limit ELSE Len(docs))

get_popular_articles(days, limit) ==
    LET date_threshold == now - timedelta(days)
        matched == SelectSeq(articles, LAMBDA a :
                        a.status = "published" /\ MatchGte(a.published_date, date_threshold))
        scored == [i \in 1..Len(matched) |->
                        matched[i] @@ [popularity_score |-> PopularityScore(matched[i])]]
        call == [op |-> "get_popular_articles", days |-> days, limit |-> limit,
                 time |-> now, outcome |-> "return"]
    IN  /\ IF limit <= 0
           THEN \* the server refuses a $limit that is not positive
                blast' = call @@ [ret |-> <<>>]
           ELSE \E o \in Orderings(scored) :
                LET limited == Limit([i \in 1..Len(scored) |-> scored[o[i]]], limit) IN
                IF LookupFails(limited)
                THEN blast' = call @@ [ret |-> <<>>]
                ELSE blast' = call @@ [ret |-> LookupUnwindAuthor(limited)]
        /\ UNCHANGED <<tmVars, inflight, nextOid, now, busers, articles, comments>>

\* ------------------------------------------------------------ SpecPopular
\* get_popular_articles over the article collections that create_article,
\* publish_article, get_article_by_id, like_article and add_comment calls
\* leave behind: drafts and articles published today or yesterday, with
\* the counters of the worked example or others, written by the stored user,
\* by an author that is no stored user, or under an author_id that is no
\* ObjectId.
MaxArticles == 2
MaxLimit == 2
Days == {0, 1}
ArticleCounters == { <<10, 2, 1>>, <<0, 1, 2>> }
ArticleAuthors == {OidStr(1), OidStr(0), <<"str", "john_doe">>}
PublishedDates == {None, MaxTime - 1, MaxTime}

InitPopular ==
    /\ now = MaxTime
    /\ \E n \in 0..MaxArticles :
        /\ \E aut \in [1..n -> ArticleAuthors],
              pub \in [1..n -> PublishedDates],
              cnt \in [1..n -> ArticleCounters] :
            /\ \A i \in 1..n : pub[i] <= now
            /\ articles = [i \in 1..n |-> StoredArticle(i, aut[i], pub[i], cnt[i])]
        /\ nextOid = 2 + n
    /\ busers = << [_id |-> 1, username |-> "john_doe", email |-> "john@example.com",
                    article_count |-> 0, comment_count |-> 0] >>
    /\ comments = <<>>
    /\ blast = [op |-> "init"]
    /\ users = <<>>
    /\ tasks = <<>>
    /\ last = [op |-> "init"]
    /\ calls = [o \in {} |-> 0]
    /\ anyDeleted = FALSE
    /\ inflight = Idle

NextPopular == \E days \in Days, limit \in 0..MaxLimit : get_popular_articles(days, limit)

SpecPopular == InitPopular /\ [][NextPopular]_vars

\* ------------------------------------------------- articles and comments
\* The filter {"_id": ObjectId(article_id)} of add_comment and like_article.
AnyArticleQuery(article_id) == MatchAll
ArticleQuery(article_id) == [field |-> "_id", value |-> ObjectId(article_id)]

create_article(author_id, status) ==
    LET article_data == [_id |-> nextOid, author_id |-> author_id, status |-> status,
                         published_date |-> IF status = "published" THEN now ELSE None,
                         view_count |-> 0, like_count |-> 0, comment_count |-> 0,
                         likes |-> <<>>]
    IN  /\ articles' = Append(articles, article_data)
        /\ nextOid' = nextOid + 1
        /\ blast' = [op |-> "create_article", author_id |-> author_id,
                     outcome |-> "return", ret |-> OidStr(nextOid)]
        /\ UNCHANGED <<tmVars, inflight, now, busers, comments>>

add_comment(article_id, author_id, parent_id) ==
    LET comment_data == [_id |-> nextOid, article_id |-> article_id,
                         author_id |-> author_id, parent_id |-> parent_id,
                         is_approved |-> TRUE]
        call == [op |-> "add_comment", article_id |-> article_id,
                 author_id |-> author_id]
    IN  /\ comments' = Append(comments, comment_data)
        /\ nextOid' = nextOid + 1
        /\ IF ObjectId_is_valid(article_id)
           THEN /\ articles' = UpdateOneInc(articles, ArticleQuery(article_id),
                                            "comment_count", 1)
                /\ blast' = call @@ [outcome |-> "return", ret |-> OidStr(nextOid)]
           ELSE \* ObjectId(article_id) raises InvalidId, caught by except Exception
                /\ articles' = articles
                /\ blast' = call @@ [outcome |-> "return", ret |-> NoStr]
        /\ UNCHANGED <<tmVars, inflight, now, busers>>

\* {"$push": {"likes": user_id}} and {"$pull": {"likes": user_id}}: $pull
\* removes every entry equal to user_id.
Push(list, value) == Append(list, value)
PullNothing(list, value) == list
Pull(list, value) == SelectSeq(list, LAMBDA x : x # value)

\* update_one(q, {"$push"/"$pull": {"likes": user_id}, "$inc": {"like_count": d}})
\* on the first document matching q, if any.
UpdateOneLike(coll, q, user_id) ==
    LET i == FirstMatch(coll, q) IN
    IF i = 0 THEN coll
    ELSE [coll EXCEPT ![i].likes = Push(@, user_id), ![i].like_count = @ + 1]
UpdateOneUnlike(coll, q, user_id) ==
    LET i == FirstMatch(coll, q) IN
    IF i = 0 THEN coll
    ELSE [coll EXCEPT ![i].likes = Pull(@, user_id), ![i].like_count = @ - 1]

like_article(article_id, user_id) ==
    LET call == [op |-> "like_article", article_id |-> article_id,
                 user_id |-> user_id, outcome |-> "return"]
    IN  /\ IF ~ObjectId_is_valid(article_id)
           THEN \* ObjectId(article_id) raises InvalidId, caught by except Exception
                /\ articles' = articles
                /\ blast' = call @@ [ret |-> FALSE]
           ELSE LET article == FirstMatch(articles, ArticleQuery(article_id)) IN
                IF article = 0
                THEN /\ articles' = articles
                     /\ blast' = call @@ [ret |-> FALSE]
                ELSE LET after == IF user_id \in Range(articles[article].likes)
                                  THEN UpdateOneUnlike(articles, ArticleQuery(article_id), user_id)
                                  ELSE UpdateOneLike(articles, ArticleQuery(article_id), user_id)
                     IN  /\ articles' = after
                         /\ blast' = call @@ [article |-> articles[article],
                                              ret |-> (ModifiedCount(articles, after) > 0)]
        /\ UNCHANGED <<tmVars, inflight, nextOid, now, busers, comments>>

\* --------------------------------------------------------------- SpecBlog
\* BlogSystem, one caller: users write articles and comment on them; a
\* comment names a stored article, an ObjectId naming no article, or a
\* string that is no ObjectId.
MaxBlogArticles == 2
MaxBlogComments == 2

BlogUsers == {OidStr(busers[i]._id) : i \in 1..Len(busers)}
ArticleIds ==
    {OidStr(articles[i]._id) : i \in 1..Len(articles)}
        \cup {NoSuchOid, <<"str", "mongodb-guide">>}

NextBlog ==
    \/ \E in \in UserInputs : Blog_create_user(in[1], in[2])
    \/ \E a \in BlogUsers :
            Len(articles) < MaxBlogArticles /\ create_article(a, "published")
    \/ \E id \in ArticleIds, a \in BlogUsers :
            Len(comments) < MaxBlogComments /\ add_comment(id, a, NoStr)

SpecBlog == Init /\ [][NextBlog]_vars

\* -------------------------------------------------------------- SpecLikes
\* BlogSystem, one caller: users like and unlike articles.
MaxLikedArticles == 1

NextLikes ==
    \/ \E in \in UserInputs : Blog_create_user(in[1], in[2])
    \/ \E a \in BlogUsers :
            Len(articles) < MaxLikedArticles /\ create_article(a, "draft")
    \/ \E id \in ArticleIds, u \in BlogUsers : like_article(id, u)

SpecLikes == Init /\ [][NextLikes]_vars

\* ---------------------------------------------------- SpecConcurrentLikes
\* BlogSystem, several callers on one database: the find_one and the
\* update_one of like_article are steps of their own, and the steps of the
\* callers interleave.  Calls start while like_count is less than
\* MaxLikeDrift away from the number of likes.
MaxLikeDrift == 1

LikeDrift(article) == article.like_count - Len(article.likes)

\* article = self.articles.find_one(...); likes = article.get("likes", [])
like_article_find(c, article_id, user_id) ==
    LET call == [op |-> "like_article", caller |-> c, article_id |-> article_id,
                 user_id |-> user_id, outcome |-> "return"]
    IN  /\ inflight[c].pc = "idle"
        /\ \A i \in 1..Len(articles) :
                /\ LikeDrift(articles[i]) < MaxLikeDrift
                /\ LikeDrift(articles[i]) > -MaxLikeDrift
        /\ IF ~ObjectId_is_valid(article_id)
           THEN \* ObjectId(article_id) raises InvalidId, caught: return False
                /\ inflight' = inflight
                /\ blast' = call @@ [ret |-> FALSE]
           ELSE LET article == FirstMatch(articles, ArticleQuery(article_id)) IN
                IF article = 0
                THEN /\ inflight' = inflight
                     /\ blast' = call @@ [ret |-> FALSE]
                ELSE /\ inflight' = [inflight EXCEPT ![c] =
                            [pc |-> "update", article_id |-> article_id,
                             user_id |-> user_id, likes |-> articles[article].likes]]
                     /\ blast' = blast
        /\ UNCHANGED <<tmVars, nextOid, now, busers, articles, comments>>

\* if user_id in likes: update_one($pull, $inc -1) else: update_one($push, $inc 1)
like_article_update(c) ==
    LET my == inflight[c]
        after == IF my.user_id \in Range(my.likes)
                 THEN UpdateOneUnlike(articles, ArticleQuery(my.article_id), my.user_id)
                 ELSE UpdateOneLike(articles, ArticleQuery(my.article_id), my.user_id)
    IN  /\ my.pc = "update"
        /\ articles' = after
        /\ inflight' = [inflight EXCEPT ![c] = [pc |-> "idle"]]
        /\ blast' = [op |-> "like_article", caller |-> c, article_id |-> my.article_id,
                     user_id |-> my.user_id, outcome |-> "return",
                     ret |-> (ModifiedCount(articles, after) > 0)]
        /\ UNCHANGED <<tmVars, nextOid, now, busers, comments>>

\* Two users are registered and the first has written an article.
InitConcurrentLikes ==
    /\ busers = << [_id |-> 1, username |-> "ahmed_dev", email |-> "ahmed@example.com",
                    article_count |-> 0, comment_count |-> 0],
                   [_id |-> 2, username |-> "sara_pm", email |-> "sara@example.com",
                    article_count |-> 0, comment_count |-> 0] >>
    /\ articles = << [_id |-> 3, author_id |-> OidStr(1), status |-> "draft",
                      published_date |-> None, view_count |-> 0, like_count |-> 0,
                      comment_count |-> 0, likes |-> <<>>] >>
    /\ comments = <<>>
    /\ nextOid = 4
    /\ blast = [op |-> "init"]
    /\ inflight = Idle
    /\ users = <<>>
    /\ tasks = <<>>
    /\ now = 0
    /\ last = [op |-> "init"]
    /\ calls = [o \in {} |-> 0]
    /\ anyDeleted = FALSE

NextConcurrentLikes ==
    \E c \in Callers :
        \/ \E id \in ArticleIds, u \in BlogUsers : like_article_find(c, id, u)
        \/ like_article_update(c)

SpecConcurrentLikes == InitConcurrentLikes /\ [][NextConcurrentLikes]_vars

\* ================================================================= claims
\* The task a caller means by an identifier: the one whose _id it spells
\* when it is an ObjectId, else the one whose task_id it is.
IdentifiedBy(task, identifier) ==
    IF identifier[1] = "oid" THEN task._id = identifier[2]
    ELSE task.task_id = identifier

TasksOwnedBy(user) ==
    {j \in 1..Len(tasks) : tasks[j].user_id = <<"oid", user._id>>}

\* C2: while no task has been deleted, a user created with task_count 0 and
\* named as the owner in N create_task calls has task_count N.
C2_CountEqualsCreateCalls ==
    ~anyDeleted =>
        \A i \in 1..Len(users) : users[i].task_count = calls[users[i]._id]

C2_Witness ==
    /\ ~anyDeleted
    /\ \E i \in 1..Len(users) :
        calls[users[i]._id] >= 2 /\ users[i].task_count = calls[users[i]._id]

\* C3: between calls every user's task_count is the number of stored tasks
\* whose user_id names that user, and a delete_task that returns True has
\* removed exactly the identified task and lowered exactly its owner's
\* task_count by one.
C3_CountIsLiveCount ==
    \A i \in 1..Len(users) : users[i].task_count = Cardinality(TasksOwnedBy(users[i]))

C3_DeleteStep ==
    (last'.op = "delete_task" /\ last'.outcome = "return" /\ last'.ret = TRUE) =>
        \E j \in 1..Len(tasks) :
            /\ IdentifiedBy(tasks[j], last'.task_identifier)
            /\ Len(tasks') = Len(tasks) - 1
            /\ \A k \in 1..Len(tasks') : tasks'[k] = tasks[IF k < j THEN k ELSE k + 1]
            /\ Len(users') = Len(users)
            /\ \A i \in 1..Len(users) :
                users'[i] = IF tasks[j].user_id = <<"oid", users[i]._id>>
                            THEN [users[i] EXCEPT !.task_count = @ - 1]
                            ELSE users[i]

\* C3: the counters equal the live counts in every state, and every
\* successful delete_task step is as C3_DeleteStep says.
C3_CounterTracksTasks == []C3_CountIsLiveCount /\ [][C3_DeleteStep]_vars

\* Two users with a task each, the first one's then deleted.
C3_Witness ==
    /\ last.op = "delete_task" /\ last.outcome = "return" /\ last.ret = TRUE
    /\ Len(users) = 2
    /\ users[1].task_count = 0 /\ users[2].task_count = 1
    /\ Len(tasks) = 1
    /\ calls[users[1]._id] = 1

\* C4: delete_task with an identifier that names no stored task returns
\* False and leaves the tasks and the users as they were.
C4_DeleteMissingStep ==
    (/\ last'.op = "delete_task"
     /\ \A j \in 1..Len(tasks) : ~IdentifiedBy(tasks[j], last'.task_identifier)) =>
        /\ last'.outcome = "return"
        /\ last'.ret = FALSE
        /\ tasks' = tasks
        /\ users' = users

\* C4: every step of delete_task on an identifier naming no stored task
\* returns False and changes neither the tasks nor the users.
C4_DeleteMissingChangesNothing == [][C4_DeleteMissingStep]_vars

C4_Witness ==
    /\ last.op = "delete_task" /\ last.outcome = "return" /\ last.ret = FALSE
    /\ anyDeleted
    /\ Len(tasks) > 0
    /\ \E i \in 1..Len(users) : users[i].task_count > 0

\* C10: create_task takes the task_id of the number of stored tasks plus
\* one, and when a stored task has that task_id it returns None, adds no
\* task and changes no user.
C10_CreateStep ==
    last'.op = "create_task" =>
        /\ last'.task_id = FormatTaskId(Len(tasks) + 1)
        /\ (\E j \in 1..Len(tasks) : tasks[j].task_id = last'.task_id) =>
                /\ last'.outcome = "return"
                /\ last'.ret = None
                /\ tasks' = tasks
                /\ users' = users
        /\ (last'.ret # None) =>
                /\ Len(tasks') = Len(tasks) + 1
                /\ tasks'[Len(tasks')].task_id = last'.task_id

\* C10: every create_task step uses the task_id of the task count plus one
\* and, when that task_id is taken, returns None and changes nothing.
C10_DuplicateTaskIdRejected == [][C10_CreateStep]_vars

\* Two tasks created, the first deleted, a third create_task refused.
C10_Witness ==
    /\ last.op = "create_task" /\ last.ret = None
    /\ last.task_id = <<"TASK-", 0, 0, 0, 2>>
    /\ Len(tasks) = 1
    /\ tasks[1].task_id = <<"TASK-", 0, 0, 0, 2>>
    /\ ObjectId_is_valid(last.user_id)

\* C5: update_task with status "completed" on a stored task stores the time
\* of the call as completed_at when the updates carry no completed_at, and
\* the supplied completed_at when they carry one.
C5_CompleteStep ==
    (/\ last'.op = "update_task"
     /\ "status" \in DOMAIN last'.updates
     /\ last'.updates["status"] = "completed") =>
        \A j \in 1..Len(tasks) :
            IdentifiedBy(tasks[j], last'.task_identifier) =>
                /\ tasks'[j].status = "completed"
                /\ tasks'[j].completed_at =
                        IF "completed_at" \in DOMAIN last'.updates
                        THEN last'.updates["completed_at"]
                        ELSE now

\* C5: every update_task step that completes a stored task leaves it with
\* the supplied completed_at, or with the time of the call if none was supplied.
C5_CompletedAtStamped == [][C5_CompleteStep]_vars

\* A completed_at of 0 supplied at time 1 is what the task holds.
C5_Witness ==
    /\ last.op = "update_task" /\ last.ret = TRUE
    /\ last.updates = [status |-> "completed", completed_at |-> 0]
    /\ last.time = 1
    /\ \E j \in 1..Len(tasks) :
        /\ IdentifiedBy(tasks[j], last.task_identifier)
        /\ tasks[j].completed_at = 0
        /\ tasks[j].updated_at = 1

\* C6: update_task returns True exactly when a task document was modified;
\* it returns False for an identifier naming no stored task, and a call that
\* returns False has changed no task and no user.
C6_UpdateStep ==
    last'.op = "update_task" =>
        /\ last'.outcome = "return"
        /\ last'.ret = (tasks' # tasks)
        /\ (\A j \in 1..Len(tasks) : ~IdentifiedBy(tasks[j], last'.task_identifier))
                => last'.ret = FALSE
        /\ last'.ret = FALSE => (tasks' = tasks /\ users' = users)
        /\ users' = users

\* C6: every update_task step returns whether a task document changed, and
\* never changes a user.
C6_UpdateReportsModification == [][C6_UpdateStep]_vars

\* A stored task, found and left as it was: False.
C6_Witness ==
    /\ last.op = "update_task" /\ last.ret = FALSE
    /\ \E j \in 1..Len(tasks) : IdentifiedBy(tasks[j], last.task_identifier)

\* C7: get_overdue_tasks returns, each once, exactly the stored tasks whose
\* due_date is earlier than the current time and whose status is neither
\* "completed" nor "cancelled"; none due at the current time, none without
\* a due date.
C7_OverdueExactly ==
    last.op = "get_overdue_tasks" =>
        /\ Range(last.ret) =
                {t \in Range(tasks) :
                    /\ t.due_date # None
                    /\ t.due_date < last.time
                    /\ t.status # "completed"
                    /\ t.status # "cancelled"}
        /\ Cardinality(Range(last.ret)) = Len(last.ret)
        /\ \A t \in Range(last.ret) : t.due_date # last.time /\ t.due_date # None
        /\ last.time = now

C7_Witness ==
    /\ last.op = "get_overdue_tasks"
    /\ Len(last.ret) = 1
    /\ Len(tasks) = 2
    /\ \E t \in Range(tasks) : t.due_date = now /\ t.status = "todo"

\* C1: create_user with the username or the email of a stored user returns
\* None and leaves db.users as it was, in the task app and in the blog app;
\* no two stored users ever share a username or an email.
C1_NoSharedKey(coll) ==
    \A i, j \in 1..Len(coll) :
        i # j => coll[i].username # coll[j].username /\ coll[i].email # coll[j].email

C1_Taken(coll, call) ==
    \E i \in 1..Len(coll) :
        coll[i].username = call.username \/ coll[i].email = call.email

C1_RejectStep ==
    /\ (last' # last /\ last'.op = "create_user" /\ C1_Taken(users, last')) =>
            (last'.outcome = "return" /\ last'.ret = None /\ users' = users)
    /\ (blast' # blast /\ blast'.op = "create_user" /\ C1_Taken(busers, blast')) =>
            (blast'.outcome = "return" /\ blast'.ret = NoStr /\ busers' = busers)

\* C1: usernames and emails are unique among the stored users of each app in
\* every state, and every create_user step that reuses one is refused.
C1_DuplicateUserRejected ==
    [](C1_NoSharedKey(users) /\ C1_NoSharedKey(busers)) /\ [][C1_RejectStep]_vars

\* Both managers hold a user and have just refused another.
C1_Witness ==
    /\ last.op = "create_user" /\ last.ret = None
    /\ blast.op = "create_user" /\ blast.ret = NoStr
    /\ Len(users) = 1 /\ Len(busers) = 1
    /\ last.username # users[1].username
    /\ blast.email # busers[1].email

\* C8 speaks of the list get_comments hands to _organize_comments and of the
\* forest it returns: the roots, their replies, the replies of these, ...
C8_List == blast.list
C8_Positions == 1..Len(blast.list)
C8_Count(seq, x) == Cardinality({i \in 1..Len(seq) : seq[i] = x})

C8_HasParentInList(k) ==
    /\ C8_List[k].parent_id # NoStr
    /\ \E m \in C8_Positions : <<"oid", C8_List[m]._id>> = C8_List[k].parent_id
C8_ParentOf(k) ==
    CHOOSE m \in C8_Positions : <<"oid", C8_List[m]._id>> = C8_List[k].parent_id
C8_Orphan(k) == C8_List[k].parent_id # NoStr /\ ~C8_HasParentInList(k)

\* The comments of the forest: the roots and everything under them.
RECURSIVE C8_Under(_, _)
C8_Under(nodes, fuel) ==
    LET more == nodes \cup UNION {Range(blast.ret.replies[p]) : p \in nodes} IN
    IF fuel = 0 \/ more = nodes THEN nodes ELSE C8_Under(more, fuel - 1)
C8_Forest == C8_Under(Range(blast.ret.roots), Len(blast.list))

RECURSIVE C8_SumReplies(_, _)
C8_SumReplies(parents, k) ==
    IF parents = {} THEN 0
    ELSE LET p == CHOOSE q \in parents : TRUE IN
         C8_Count(blast.ret.replies[p], k) + C8_SumReplies(parents \ {p}, k)

\* How often comment k appears in the forest.
C8_Occurrences(k) == C8_Count(blast.ret.roots, k) + C8_SumReplies(C8_Forest, k)

\* Following parent references from k ends at a comment without one.
RECURSIVE C8_Rooted(_, _)
C8_Rooted(k, fuel) ==
    IF C8_List[k].parent_id = NoStr THEN TRUE
    ELSE IF fuel = 0 \/ ~C8_HasParentInList(k) THEN FALSE
    ELSE C8_Rooted(C8_ParentOf(k), fuel - 1)

C8_RootsAreTheParentless ==
    \A k \in C8_Positions :
        C8_Count(blast.ret.roots, k) = IF C8_List[k].parent_id = NoStr THEN 1 ELSE 0

\* C8 as claimed: the roots are exactly the comments without a parent
\* reference, a comment whose parent is in the list appears exactly once in
\* the forest, in that parent's replies, and a comment whose parent is not
\* in the list appears nowhere.
C8_AsClaimed ==
    (blast.op = "get_comments" /\ blast.organized) =>
        /\ C8_RootsAreTheParentless
        /\ \A k \in C8_Positions : C8_HasParentInList(k) =>
                /\ C8_Occurrences(k) = 1
                /\ C8_Count(blast.ret.replies[C8_ParentOf(k)], k) = 1
        /\ \A k \in C8_Positions : C8_Orphan(k) => C8_Occurrences(k) = 0

\* C8 amended: a comment whose parent is in the list is once in that
\* parent's replies and in no other place; it appears in the forest, once,
\* exactly when its parent references lead to a root.  A comment whose
\* parent is not in the list is in no replies and no root.
C8_ForestOfRootedComments ==
    (blast.op = "get_comments" /\ blast.organized) =>
        /\ C8_RootsAreTheParentless
        /\ \A k \in C8_Positions : C8_HasParentInList(k) =>
                /\ \A p \in C8_Positions :
                      C8_Count(blast.ret.replies[p], k) =
                            IF p = C8_ParentOf(k) THEN 1 ELSE 0
                /\ C8_Occurrences(k) = IF C8_Rooted(k, Len(C8_List)) THEN 1 ELSE 0
        /\ \A k \in C8_Positions : C8_Orphan(k) =>
                /\ \A p \in C8_Positions : C8_Count(blast.ret.replies[p], k) = 0
                /\ C8_Occurrences(k) = 0
        /\ \A k \in C8_Positions : C8_List[k].parent_id = NoStr =>
                /\ \A p \in C8_Positions : C8_Count(blast.ret.replies[p], k) = 0
                /\ C8_Occurrences(k) = 1

\* The chain A, B (parent A), C (parent B): root A, under it B, under it C.
C8_Witness ==
    /\ blast.op = "get_comments" /\ blast.organized
    /\ Len(blast.list) = 3
    /\ blast.list[1].parent_id = NoStr
    /\ blast.list[2].parent_id = <<"oid", blast.list[1]._id>>
    /\ blast.list[3].parent_id = <<"oid", blast.list[2]._id>>
    /\ blast.ret.roots = <<1>>
    /\ blast.ret.replies = <<(<<2>>), (<<3>>), (<<>>)>>

\* C9 speaks of the articles that qualify at the time of the call: those
\* published within the trailing window of days.
C9_Score(a) == a.view_count * 1 + a.like_count * 3 + a.comment_count * 2
C9_Qualifying ==
    {a \in Range(articles) :
        /\ a.status = "published"
        /\ a.published_date # None
        /\ a.published_date >= blast.time - blast.days}
C9_Returned == {a \in Range(articles) : \E r \in Range(blast.ret) : r._id = a._id}

\* Every returned article carries the weighted score, qualifies, and comes
\* once, in non-increasing score order, at most limit of them.
C9_ScoredSortedLimited ==
    /\ \A r \in Range(blast.ret) :
        /\ r.popularity_score = C9_Score(r)
        /\ \E a \in C9_Qualifying : r = a @@ [popularity_score |-> C9_Score(a)]
    /\ \A i, j \in 1..Len(blast.ret) : i # j => blast.ret[i]._id # blast.ret[j]._id
    /\ \A i \in 1..(Len(blast.ret) - 1) :
            blast.ret[i].popularity_score >= blast.ret[i + 1].popularity_score
    /\ Len(blast.ret) <= blast.limit

\* C9 as claimed: scored, qualifying, sorted, at most limit, and none with a
\* lower score than a qualifying article left out.
C9_AsClaimed ==
    blast.op = "get_popular_articles" =>
        /\ C9_ScoredSortedLimited
        /\ \A r \in C9_Returned, q \in C9_Qualifying \ C9_Returned :
                C9_Score(r) >= C9_Score(q)

\* The selections the $limit stage can make: limit qualifying articles (all
\* of them if there are fewer), none scoring lower than one not selected.
C9_TopSelections ==
    {T \in SUBSET C9_Qualifying :
        /\ Cardinality(T) = IF blast.limit < Cardinality(C9_Qualifying)
                            THEN blast.limit ELSE Cardinality(C9_Qualifying)
        /\ \A t \in T, q \in C9_Qualifying \ T : C9_Score(t) >= C9_Score(q)}
C9_AuthorStored(a) ==
    a.author_id[1] = "oid" /\ \E i \in 1..Len(busers) : busers[i]._id = a.author_id[2]

\* C9 amended: scored, qualifying, sorted, at most limit; the returned
\* articles are those of the limit highest-scoring qualifying articles whose
\* author is a stored user, and nothing is returned when one of these has an
\* author_id that is no ObjectId, or when limit is not positive.
C9_TopLimitWithStoredAuthor ==
    blast.op = "get_popular_articles" =>
        /\ C9_ScoredSortedLimited
        /\ blast.limit <= 0 => blast.ret = <<>>
        /\ blast.limit > 0 =>
            \E T \in C9_TopSelections :
                C9_Returned = IF \E t \in T : t.author_id[1] # "oid" THEN {}
                              ELSE {t \in T : C9_AuthorStored(t)}

\* The worked example, 10 views, 2 likes and 1 comment scoring 18, returned
\* ahead of a lower-scoring article.
C9_Witness ==
    /\ blast.op = "get_popular_articles"
    /\ Len(blast.ret) = 2
    /\ blast.ret[1].view_count = 10 /\ blast.ret[1].like_count = 2
    /\ blast.ret[1].comment_count = 1 /\ blast.ret[1].popularity_score = 18
    /\ blast.ret[2].popularity_score = 7

\* C11: no call of either manager ends by raising to its caller; every call
\* ends by returning.
C11_NoExceptionPropagates ==
    /\ "outcome" \in DOMAIN last => last.outcome = "return"
    /\ "outcome" \in DOMAIN blast => blast.outcome = "return"

\* The stored articles and comments a blog user wrote.
ArticlesBy(user) ==
    {j \in 1..Len(articles) : articles[j].author_id = OidStr(user._id)}
CommentsBy(user) ==
    {k \in 1..Len(comments) : comments[k].author_id = OidStr(user._id)}
CommentsOn(article) ==
    {k \in 1..Len(comments) : comments[k].article_id = OidStr(article._id)}

\* C12: every blog user's stored article_count and comment_count equal the
\* numbers of stored articles and of stored comments that user wrote.
C12_UserCountersTrackContent ==
    \A i \in 1..Len(busers) :
        /\ busers[i].article_count = Cardinality(ArticlesBy(busers[i]))
        /\ busers[i].comment_count = Cardinality(CommentsBy(busers[i]))

\* C13: every stored article's comment_count equals the number of stored
\* comments whose article_id names it.
C13_CountIsComments ==
    \A i \in 1..Len(articles) :
        articles[i].comment_count = Cardinality(CommentsOn(articles[i]))

\* C13: a step that stores a comment raises the comment_count of the article
\* its article_id names by one and leaves every other article as it was.
C13_AddStep ==
    Len(comments') = Len(comments) + 1 =>
        LET c == comments'[Len(comments')] IN
        /\ Len(articles') = Len(articles)
        /\ \A i \in 1..Len(articles) :
            articles'[i] =
                IF c.article_id = OidStr(articles[i]._id)
                THEN [articles[i] EXCEPT !.comment_count = @ + 1]
                ELSE articles[i]

\* C13: the comment counters equal the comment counts in every state, and
\* every add_comment step that stores a comment is as C13_AddStep says.
C13_CommentCountTracksComments == []C13_CountIsComments /\ [][C13_AddStep]_vars

\* Two articles, both comments on the second.
C13_Witness ==
    /\ blast.op = "add_comment"
    /\ Len(articles) = 2 /\ Len(comments) = 2
    /\ articles[1].comment_count = 0 /\ articles[2].comment_count = 2

\* C14: in every state likes names no user twice and like_count is the
\* number of entries of likes.
C14_LikesConsistent ==
    \A i \in 1..Len(articles) :
        /\ \A j, k \in 1..Len(articles[i].likes) :
                articles[i].likes[j] = articles[i].likes[k] => j = k
        /\ articles[i].like_count = Len(articles[i].likes)

\* C14: a like_article step on a stored article adds the user to its likes
\* and raises like_count by one if the user was not among them, else removes
\* the user and lowers like_count by one; on an article_id naming no stored
\* article it returns False and changes nothing.
C14_ToggleStep ==
    blast'.op = "like_article" =>
        LET named == {i \in 1..Len(articles) :
                        OidStr(articles[i]._id) = blast'.article_id}
            u == blast'.user_id
        IN  /\ Len(articles') = Len(articles)
            /\ named = {} => blast'.ret = FALSE /\ articles' = articles
            /\ named # {} => blast'.ret = TRUE
            /\ \A i \in 1..Len(articles) :
                IF i \notin named THEN articles'[i] = articles[i]
                ELSE IF u \in Range(articles[i].likes)
                THEN /\ Range(articles'[i].likes) = Range(articles[i].likes) \ {u}
                     /\ articles'[i].like_count = articles[i].like_count - 1
                ELSE /\ Range(articles'[i].likes) = Range(articles[i].likes) \cup {u}
                     /\ articles'[i].like_count = articles[i].like_count + 1

\* C14: the second of two consecutive like_article calls by one user on one
\* stored article leaves the article with the users in likes and the
\* like_count it had before the first.
C14_TwiceStep ==
    (/\ blast.op = "like_article" /\ blast'.op = "like_article"
     /\ "article" \in DOMAIN blast
     /\ blast'.article_id = blast.article_id
     /\ blast'.user_id = blast.user_id) =>
        \A i \in 1..Len(articles') :
            articles'[i]._id = blast.article._id =>
                /\ Range(articles'[i].likes) = Range(blast.article.likes)
                /\ articles'[i].like_count = blast.article.like_count

\* C14: likes and like_count agree in every state, and every like_article
\* step toggles and every second call in a row restores.
C14_LikeToggles ==
    []C14_LikesConsistent /\ [][C14_ToggleStep /\ C14_TwiceStep]_vars

\* Liked by both users, then unliked and liked again by the first.
C14_Witness ==
    /\ blast.op = "like_article" /\ blast.ret = TRUE
    /\ "article" \in DOMAIN blast
    /\ blast.user_id = OidStr(1)
    /\ blast.article.likes = <<OidStr(2)>>
    /\ Len(articles) = 1
    /\ articles[1].likes = <<OidStr(2), OidStr(1)>>
    /\ articles[1].like_count = 2

\* The users the rule of C15 selects for an identifier: by _id when it has
\* the format of an ObjectId, else by email when it has an "@", else by
\* username.
C15_Selected(identifier) ==
    IF identifier[1] = "oid"
    THEN {i \in 1..Len(users) : users[i]._id = identifier[2]}
    ELSE IF \E k \in 1..Len(identifier) : identifier[k] = "@"
    THEN {i \in 1..Len(users) : users[i].email = identifier}
    ELSE {i \in 1..Len(users) : users[i].username = identifier}

\* C15: get_user returns the user its one rule selects, and no user when
\* that rule selects none.
C15_GetUserByOneRule ==
    last.op = "get_user" =>
        IF C15_Selected(last.identifier) = {} THEN last.ret = None
        ELSE \E i \in C15_Selected(last.identifier) : last.ret = users[i]._id

C15_Named(identifier) == {j \in 1..Len(tasks) : IdentifiedBy(tasks[j], identifier)}

\* C15: get_task finds the task the identifier names by _id or else task_id.
C15_GetTaskResolves ==
    \A t \in TaskIdentifiers :
        IF C15_Named(t) = {} THEN get_task(t) = 0 ELSE get_task(t) \in C15_Named(t)

\* C15: update_task changes, and delete_task removes, only the task that
\* get_task finds for the same identifier, and succeeds only if there is one.
C15_ResolveStep ==
    /\ last'.op = "update_task" =>
        /\ Len(tasks') = Len(tasks)
        /\ \A j \in 1..Len(tasks) : j # get_task(last'.task_identifier) => tasks'[j] = tasks[j]
        /\ last'.ret = TRUE => get_task(last'.task_identifier) # 0
    /\ last'.op = "delete_task" =>
        IF get_task(last'.task_identifier) = 0
        THEN tasks' = tasks /\ last'.ret = FALSE
        ELSE tasks' = RemoveAt(tasks, get_task(last'.task_identifier))

\* C15: the lookups of users and of tasks follow their rules in every state
\* and in every step.
C15_IdentifierResolution ==
    [](C15_GetUserByOneRule /\ C15_GetTaskResolves) /\ [][C15_ResolveStep]_vars

\* get_user of an identifier with an "@" that is a stored username and no
\* stored email finds no user.
C15_Witness ==
    /\ last.op = "get_user" /\ last.ret = None
    /\ last.identifier = <<"sara", "@", "example.com">>
    /\ \E i \in 1..Len(users) : users[i].username = last.identifier
    /\ \E j \in 1..Len(tasks) : tasks[j].status = "in_progress"

AllIdle == \A c \in Callers : inflight[c].pc = "idle"

\* C16: when no call is in flight, every user's task_count is the number of
\* stored tasks of that user.
C16_CountersSettle == AllIdle => C3_CountIsLiveCount

\* C17: no two stored tasks have the same task_id.
C17_TaskIdsDistinct ==
    \A j, k \in 1..Len(tasks) : tasks[j].task_id = tasks[k].task_id => j = k

\* C17: a creator whose task_id is taken when it inserts stores nothing and
\* returns None.
C17_RejectStep ==
    \A c \in Callers :
        (/\ inflight[c].pc = "insert"
         /\ inflight'[c] # inflight[c]
         /\ \E j \in 1..Len(tasks) : tasks[j].task_id = inflight[c].task_id) =>
            /\ tasks' = tasks
            /\ inflight'[c].pc = "idle"
            /\ last'.op = "create_task" /\ last'.caller = c /\ last'.ret = None

\* C17: task_ids are distinct in every state, and every insert of a taken
\* task_id is rejected.
C17_UniqueTaskIds == []C17_TaskIdsDistinct /\ [][C17_RejectStep]_vars

\* Two creators read the same count; the second to insert was rejected.
C17_Witness ==
    /\ last.op = "create_task" /\ last.ret = None
    /\ ~anyDeleted
    /\ \E j \in 1..Len(tasks) : tasks[j].task_id = last.task_id

\* C18: no task has a tag twice.
C18_NoDuplicateTag ==
    \A j \in 1..Len(tasks) :
        \A a, b \in 1..Len(tasks[j].tags) :
            tasks[j].tags[a] = tasks[j].tags[b] => a = b

\* C18: an add_tags_to_task step leaves the task it names with the tags it
\* had and the tags passed, and every step leaves every task with at least
\* the tags it had.
C18_AddStep ==
    /\ \A j \in 1..Len(tasks) :
            /\ j <= Len(tasks')
            /\ Range(tasks[j].tags) \subseteq Range(tasks'[j].tags)
    /\ last'.op = "add_tags_to_task" =>
        \A j \in 1..Len(tasks) :
            Range(tasks'[j].tags) =
                IF IdentifiedBy(tasks[j], last'.task_identifier)
                THEN Range(tasks[j].tags) \cup Range(last'.tags)
                ELSE Range(tasks[j].tags)

\* C18: tags stay free of duplicates in every state and only grow, by the
\* tags passed, in every step.
C18_TagsAreAGrowingSet == []C18_NoDuplicateTag /\ [][C18_AddStep]_vars

\* A list repeating a tag the task already has was passed for the second of
\* two tasks.
C18_Witness ==
    /\ last.op = "add_tags_to_task" /\ last.tags = <<"ui", "ui">>
    /\ Len(tasks) = 2
    /\ last.task_identifier = tasks[2].task_id
    /\ tasks[2].tags = <<"urgent", "ui">>
    /\ tasks[1].tags = <<>>

\* C19: when no like_article call is in flight, likes names no user twice
\* and like_count is the number of entries of likes.
C19_LikesSettle == AllIdle => C14_LikesConsistent

\* C20: every user's task_count is at least zero.
C20_CountNeverNegative == \A i \in 1..Len(users) : users[i].task_count >= 0

\* C21: a create_task step returns an identifier if and only if it added a
\* task document; when it returns None the tasks are as they were.
C21_CreateStep ==
    last'.op = "create_task" =>
        /\ last'.ret # None <=> Len(tasks') = Len(tasks) + 1
        /\ last'.ret = None => tasks' = tasks

C21_NoneMeansNoTask == [][C21_CreateStep]_vars

\* C22: a stored task has a completed_at if and only if its status is
\* "completed".
C22_CompletedAtIffCompleted ==
    \A j \in 1..Len(tasks) :
        tasks[j].completed_at # None <=> tasks[j].status = "completed"
====
